---- MODULE Spec2Model ----
(***************************************************************************)
(* Decision-time search agents for a two-player board game:                *)
(*   AI              depth-limited alpha-beta with leaf noise              *)
(*                   (src/python/template_contest.py)                      *)
(*   AlphaBetaAgent  the alpha-beta template (src/template_alphabeta.py)   *)
(*   UCTAgent        Monte Carlo tree search, UCT (src/template_uct.py)    *)
(*                                                                         *)
(* The rules engine (ShobuGame / ShobuState) is an external collaborator.  *)
(* The model plays a capture game with the four operations of the Game     *)
(* Interface: a state is a list of home boards, each holding the stones of *)
(* player 0 and of player 1, and whose turn it is; a move pushes one stone *)
(* of the opponent off a home board where the mover is not outnumbered;    *)
(* the game ends when a player has no stone left on some home board.       *)
(* A home board side is a set of stones in the program; the agents only    *)
(* read its size, which is what is kept.                                   *)
(*                                                                         *)
(* Scores are floats in the program.  Here every leaf score is kept as the *)
(* integer score * (100 * RngMod + x), x / RngMod being the value drawn    *)
(* from random.random(): all compared values carry the same scale.         *)
(***************************************************************************)
EXTENDS Integers, Sequences, FiniteSets, TLC

\* ---------------------------------------------------------------- bounds
NumBoards == 3
MaxStones == 2
MaxDepth == 2
MaxIter == 5
RngMod == 3

\* ------------------------------------------------------ program constants
C == 2
SimCap == 500
Inf == 1000000
None == 0
Null == <<0>>

VARIABLES
    state,          \* the game state handed to play()
    engine_sound,   \* whether the engine keeps the contract of actions()
    player,         \* Agent.player
    max_depth,      \* AlphaBetaAgent.max_depth / AI.max_depth
    rng,            \* state of the random source behind random.random()
    iteration,      \* UCTAgent.iteration
    agent,          \* which agent's play() runs
    pc,             \* position of the running call
    outcome,        \* what the top-level call returned or raised
    tree,           \* UCT: the nodes created so far, by path from the root
    done,           \* UCT: completed passes of the loop of uct()
    leaf,           \* UCT: local `leaf` of the last pass
    child,          \* UCT: local `child` of the last pass
    result,         \* UCT: local `result` of the last pass
    terminal_hits   \* UCT: passes whose expand() was handed a terminal leaf

vars == <<state, engine_sound, player, max_depth, rng, iteration, agent, pc, outcome,
          tree, done, leaf, child, result, terminal_hits>>

uctVars == <<tree, done, leaf, child, result, terminal_hits>>

\* ------------------------------------------------------------- utilities
Max(a, b) == IF a >= b THEN a ELSE b
Min(a, b) == IF a <= b THEN a ELSE b
Range(s) == {s[i] : i \in DOMAIN s}

\* ---------------------------------------------------- the Game Interface
Players == {0, 1}

GameStates ==
    [board : [1..NumBoards -> [Players -> 0..MaxStones]], to_move : Players]

LostBoard(s, p) == \E b \in DOMAIN s.board : s.board[b][p] = 0

\* The side to move may push on a home board where it is not outnumbered.
CanPush(s, b) ==
    /\ s.board[b][1 - s.to_move] >= 1
    /\ s.board[b][s.to_move] >= s.board[b][1 - s.to_move]

Pushes(s) == SelectSeq([b \in 1..NumBoards |-> b], LAMBDA b : CanPush(s, b))

\* The game is over when a side has lost a home board.  An engine that is
\* not sound overlooks the home boards player 1 has lost: it lists no move
\* for such a position, and does not call it terminal.
is_terminal(s) == LostBoard(s, 0) \/ (engine_sound /\ LostBoard(s, 1))

actions(s) == IF LostBoard(s, 0) \/ LostBoard(s, 1) THEN <<>> ELSE Pushes(s)

game_result(s, a) ==
    [board   |-> [s.board EXCEPT ![a][1 - s.to_move] = @ - 1],
     to_move |-> 1 - s.to_move]

utility(s, p) ==
    IF LostBoard(s, p) THEN -1
    ELSE IF LostBoard(s, 1 - p) THEN 1
    ELSE 0

\* The opening position: every side holds MaxStones stones on every board.
Opening(p) ==
    [board |-> [b \in 1..NumBoards |-> [q \in Players |-> MaxStones]], to_move |-> p]

RECURSIVE Reach(_, _)
Reach(seen, frontier) ==
    IF frontier = {} THEN seen
    ELSE LET next == {game_result(s, actions(s)[i]) :
                         <<s, i>> \in {<<s, i>> \in frontier \X (1..NumBoards) :
                                         i <= Len(actions(s))}} \ seen
         IN  Reach(seen \cup next, next)

\* The positions play reaches from an opening position.
Positions == Reach({Opening(0), Opening(1)}, {Opening(0), Opening(1)})

\* --------------------------------------------------------- random source
\* random.random(): the generator steps, and yields x / RngMod in [0, 1).
\* The source resting at 0 yields 0.0 for ever: the noise term is then 0.
RandomNext(x) == (2 * x) % RngMod

\* ------------------------------------------------------------------- AI
AI_is_cutoff(s, depth) == depth >= max_depth \/ is_terminal(s)

MinPieces(s, p) ==
    LET lens == {s.board[b][p] : b \in DOMAIN s.board}
    IN  IF lens = {} THEN Inf ELSE CHOOSE m \in lens : \A x \in lens : m <= x

AI_eval(s) == C * MinPieces(s, player) - MinPieces(s, 1 - player)

\* score += random.random() * 0.01 * score, on the common scale.
AI_leaf(s, x) ==
    LET x1 == RandomNext(x)
    IN  [v |-> AI_eval(s) * (100 * RngMod + x1), move |-> None,
         rng |-> x1, nodes |-> 1]

MaxImproves(v2, v) == v2 > v
MinImproves(v2, v) == v2 < v
MaxCutoff(v, beta) == v >= beta
MinCutoffWrong(v, alpha) == v >= alpha
MinCutoff(v, alpha) == v <= alpha

RECURSIVE AI_max_value(_, _, _, _, _), AI_max_loop(_, _, _, _, _, _, _, _, _)
RECURSIVE AI_min_value(_, _, _, _, _), AI_min_loop(_, _, _, _, _, _, _, _, _)

AI_max_value(s, alpha, beta, depth, x) ==
    IF AI_is_cutoff(s, depth) THEN AI_leaf(s, x)
    ELSE AI_max_loop(s, 1, alpha, beta, depth, -Inf, None, x, 1)

AI_max_loop(s, i, alpha, beta, depth, v, move, x, n) ==
    IF i > Len(actions(s)) THEN [v |-> v, move |-> move, rng |-> x, nodes |-> n]
    ELSE LET action == actions(s)[i]
             r  == AI_min_value(game_result(s, action), alpha, beta, depth + 1, x)
             up == MaxImproves(r.v, v)
             v1 == IF up THEN r.v ELSE v
             m1 == IF up THEN action ELSE move
             a1 == IF up THEN Max(alpha, v1) ELSE alpha
         IN  IF MaxCutoff(v1, beta)
             THEN [v |-> v1, move |-> m1, rng |-> r.rng, nodes |-> n + r.nodes]
             ELSE AI_max_loop(s, i + 1, a1, beta, depth, v1, m1, r.rng, n + r.nodes)

AI_min_value(s, alpha, beta, depth, x) ==
    IF AI_is_cutoff(s, depth) THEN AI_leaf(s, x)
    ELSE AI_min_loop(s, 1, alpha, beta, depth, Inf, None, x, 1)

AI_min_loop(s, i, alpha, beta, depth, v, move, x, n) ==
    IF i > Len(actions(s)) THEN [v |-> v, move |-> move, rng |-> x, nodes |-> n]
    ELSE LET action == actions(s)[i]
             r  == AI_max_value(game_result(s, action), alpha, beta, depth + 1, x)
             up == MinImproves(r.v, v)
             v1 == IF up THEN r.v ELSE v
             m1 == IF up THEN action ELSE move
             b1 == IF up THEN Min(beta, v1) ELSE beta
         IN  IF MinCutoff(v1, alpha)
             THEN [v |-> v1, move |-> m1, rng |-> r.rng, nodes |-> n + r.nodes]
             ELSE AI_min_loop(s, i + 1, alpha, b1, depth, v1, m1, r.rng, n + r.nodes)

AI_alpha_beta_search_swapped(s) ==
    LET r == AI_max_value(s, -Inf, Inf, 0, rng) IN [r EXCEPT !.move = r.v]
\* _, action = self.max_value(state, -inf, inf, 0); return action
AI_alpha_beta_search(s) == AI_max_value(s, -Inf, Inf, 0, rng)

\* ------------------------------------------------------- AlphaBetaAgent
ABA_is_cutoff(s, depth) == is_terminal(s) \/ max_depth <= depth

\* `for home_board in enumerate(board)` binds (index, home board) pairs, so
\* home_board[0] is the index and len() of it raises TypeError.
ABA_nmb_of_pieces(s) ==
    IF DOMAIN s.board = {}
    THEN [pieces_player |-> 0, pieces_opponent |-> 0, err |-> ""]
    ELSE [pieces_player |-> 0, pieces_opponent |-> 0, err |-> "TypeError"]

ABA_eval(s) ==
    LET n == ABA_nmb_of_pieces(s)
    IN  IF n.err # "" THEN [v |-> 0, err |-> n.err]
        ELSE IF s.to_move = player
             THEN [v |-> n.pieces_opponent - n.pieces_player, err |-> ""]
             ELSE [v |-> n.pieces_player - n.pieces_opponent, err |-> ""]

\* self.actions(): the Agent base class is not among the sources.  Either it
\* has no such method (AttributeError) or it lists the moves of the position.
ABA_actions(s, has_actions) ==
    IF has_actions THEN [list |-> actions(s), err |-> ""]
    ELSE [list |-> <<>>, err |-> "AttributeError"]

ABA_leaf(s) ==
    LET e == ABA_eval(s) IN [v |-> e.v, move |-> None, err |-> e.err]

ABA_raise(e) == [v |-> 0, move |-> None, err |-> e]

RECURSIVE ABA_max_value(_, _, _, _, _), ABA_max_loop(_, _, _, _, _, _, _, _)
RECURSIVE ABA_min_value(_, _, _, _, _), ABA_min_loop(_, _, _, _, _, _, _, _)

ABA_max_value(s, alpha, beta, depth, has) ==
    IF ABA_is_cutoff(s, depth) THEN ABA_leaf(s)
    ELSE IF ABA_actions(s, has).err # "" THEN ABA_raise(ABA_actions(s, has).err)
    ELSE ABA_max_loop(s, 1, alpha, beta, depth, alpha, None, has)

ABA_max_loop(s, i, alpha, beta, depth, v, move, has) ==
    IF i > Len(ABA_actions(s, has).list) THEN [v |-> v, move |-> move, err |-> ""]
    ELSE LET action == ABA_actions(s, has).list[i]
             e == ABA_eval(s)
             r == ABA_min_value(s, alpha, e.v, depth + 1, has)
         IN  IF e.err # "" THEN ABA_raise(e.err)
             ELSE IF r.err # "" THEN ABA_raise(r.err)
             ELSE IF r.v > v
                  THEN ABA_max_loop(s, i + 1, alpha, beta, depth, r.v, action, has)
                  ELSE ABA_max_loop(s, i + 1, alpha, beta, depth, v, move, has)

ABA_min_value(s, alpha, beta, depth, has) ==
    IF ABA_is_cutoff(s, depth) THEN ABA_leaf(s)
    ELSE IF ABA_actions(s, has).err # "" THEN ABA_raise(ABA_actions(s, has).err)
    ELSE ABA_min_loop(s, 1, alpha, beta, depth, beta, None, has)

ABA_min_loop(s, i, alpha, beta, depth, v, move, has) ==
    IF i > Len(ABA_actions(s, has).list) THEN [v |-> v, move |-> move, err |-> ""]
    ELSE LET action == ABA_actions(s, has).list[i]
             e == ABA_eval(s)
             r == ABA_max_value(s, e.v, beta, depth + 1, has)
         IN  IF e.err # "" THEN ABA_raise(e.err)
             ELSE IF r.err # "" THEN ABA_raise(r.err)
             ELSE IF r.v < v
                  THEN ABA_min_loop(s, i + 1, alpha, beta, depth, r.v, action, has)
                  ELSE ABA_min_loop(s, i + 1, alpha, beta, depth, v, move, has)

ABA_alpha_beta_search(s, has) == ABA_max_value(s, -Inf, Inf, 0, has)

\* ------------------------------------------------------------- UCTAgent
\* Node(parent, state).  A node is named by its path from the root: the
\* positions of the children followed.  children lists (child, action) in
\* the insertion order of the dict.
Node(parent, s) ==
    [parent |-> parent, state |-> s, U |-> 0, N |-> 0, children |-> <<>>]

Root == <<>>

ChildNodes(t, n) == {t[n].children[i].node : i \in DOMAIN t[n].children}

make_children_but_last(t, n) ==
    LET acts == actions(t[n].state)
        kids == [i \in 1..(Len(acts) - 1) |->
                    [node |-> Append(n, i), action |-> acts[i]]]
        new  == {kids[i].node : i \in DOMAIN kids}
    IN  [p \in DOMAIN t \cup new |->
            IF p \in new
            THEN Node(n, game_result(t[n].state, acts[p[Len(p)]]))
            ELSE IF p = n THEN [t[n] EXCEPT !.children = kids]
            ELSE t[p]]

\* node.children = {Node(node, result(node.state, action)): action
\*                  for action in actions(node.state)}
make_children(t, n) ==
    LET acts == actions(t[n].state)
        kids == [i \in 1..Len(acts) |-> [node |-> Append(n, i), action |-> acts[i]]]
        new  == {kids[i].node : i \in DOMAIN kids}
    IN  [p \in DOMAIN t \cup new |->
            IF p \in new
            THEN Node(n, game_result(t[n].state, acts[p[Len(p)]]))
            ELSE IF p = n THEN [t[n] EXCEPT !.children = kids]
            ELSE t[p]]

\* floor(10^4 * ln k) for k = 1..16
LnTable ==
    <<0, 6931, 10986, 13862, 16094, 17917, 19459, 20794,
      21972, 23025, 23978, 24849, 25649, 26390, 27080, 27725>>

ISqrt(x) == CHOOSE r \in 0..240 : r * r <= x /\ x < (r + 1) * (r + 1)

\* UCB1 is a float.  The model brackets 100 * UCB1 between two integers; an
\* unvisited node scores infinity.
UCB1(t, n) ==
    IF t[n].N = 0 THEN [lo |-> Inf, hi |-> Inf]
    ELSE LET ln == LnTable[t[t[n].parent].N]
         IN  [lo |-> (100 * t[n].U) \div t[n].N + ISqrt((2 * ln) \div t[n].N),
              hi |-> (100 * t[n].U) \div t[n].N + 1
                     + ISqrt((2 * (ln + 1)) \div t[n].N + 1) + 1]

SameStatistics(t, a, b) == t[a].U = t[b].U /\ t[a].N = t[b].N

\* The children the loop of select() may leave in best_child: the first
\* child of maximal UCB1.  Equal statistics give the same float; scores the
\* brackets cannot order are left open.
best_child(t, n) ==
    LET kids == t[n].children
        Above(j, i) == UCB1(t, kids[j].node).lo > UCB1(t, kids[i].node).hi
    IN  {kids[i].node : i \in
            {i \in DOMAIN kids :
                /\ \A j \in 1..(i - 1) :
                     ~(Above(j, i) \/ SameStatistics(t, kids[j].node, kids[i].node))
                /\ \A j \in (i + 1)..Len(kids) : ~Above(j, i)}}

child_without_simulation(t, n) == \E c \in ChildNodes(t, n) : t[c].N = 0

Found(n) == [node |-> n, err |-> ""]
NotFound(e) == [node |-> Null, err |-> e]

RECURSIVE select(_, _)
select(t, n) ==
    IF child_without_simulation(t, n) \/ is_terminal(t[n].state) THEN {Found(n)}
    ELSE IF t[n].children = <<>> THEN {NotFound("UnboundLocalError")}
    ELSE UNION {IF t[c].N = 0 THEN {Found(t[c].parent)} ELSE select(t, c) :
                c \in best_child(t, n)}

ExpandAny(t, n) ==
    IF is_terminal(t[n].state) THEN {[tree |-> t, node |-> n, err |-> ""]}
    ELSE IF ChildNodes(t, n) = {}
         THEN {[tree |-> t, node |-> Null, err |-> "IndexError"]}
         ELSE {[tree |-> make_children(t, c), node |-> c, err |-> ""] :
               c \in ChildNodes(t, n)}

\* The outcomes of expand(node): random.choice picks any unsimulated child.
expand(t, n) ==
    IF is_terminal(t[n].state) THEN {[tree |-> t, node |-> n, err |-> ""]}
    ELSE LET children_without_simulation == {c \in ChildNodes(t, n) : t[c].N = 0}
         IN  IF children_without_simulation = {}
             THEN {[tree |-> t, node |-> Null, err |-> "IndexError"]}
             ELSE {[tree |-> make_children(t, c), node |-> c, err |-> ""] :
                   c \in children_without_simulation}

\* The outcomes of simulate(state): F holds the values current_state may
\* have when the loop test is made for the i-th time.
RECURSIVE rollout(_, _, _)
rollout(s0, F, i) ==
    LET stopped == IF i < SimCap THEN {s \in F : is_terminal(s)} ELSE F
        running == F \ stopped
        failing == {s \in running : actions(s) = <<>>}
        next    == UNION {{game_result(s, a) : a \in Range(actions(s))} :
                          s \in running \ failing}
        here    == {[value |-> utility(s, 1 - s0.to_move), err |-> ""] : s \in stopped}
                   \cup {[value |-> 0, err |-> "IndexError"] : s \in failing}
    IN  IF next = {} THEN here ELSE here \cup rollout(s0, next, i + 1)

simulate(s) == rollout(s, {s}, 0)

ClampMissing(r) == r
Clamp(r) == Max(0, r)

RECURSIVE climb_negating(_, _, _)
climb_negating(t, r, n) ==
    IF n = Null THEN t
    ELSE climb_negating([t EXCEPT ![n].N = @ + 1, ![n].U = @ + r], 0 - r,
                        t[n].parent)

RECURSIVE climb(_, _, _)
climb(t, r, n) ==
    IF n = Null THEN t
    ELSE climb([t EXCEPT ![n].N = @ + 1, ![n].U = @ + r], 1 - r, t[n].parent)

back_propagate_from_parent(t, r, n) == climb(t, Clamp(r), t[n].parent)
back_propagate(t, r, n) == climb(t, Clamp(r), n)

MostVisitedLast(t) ==
    LET kids == t[Root].children
    IN  CHOOSE i \in DOMAIN kids :
          /\ \A j \in 1..(i - 1) : t[kids[j].node].N <= t[kids[i].node].N
          /\ \A j \in (i + 1)..Len(kids) : t[kids[j].node].N < t[kids[i].node].N

\* max(root.children, key=lambda n: n.N): the first child of maximal N.
MostVisited(t) ==
    LET kids == t[Root].children
    IN  CHOOSE i \in DOMAIN kids :
          /\ \A j \in 1..(i - 1) : t[kids[j].node].N < t[kids[i].node].N
          /\ \A j \in (i + 1)..Len(kids) : t[kids[j].node].N <= t[kids[i].node].N

\* ------------------------------------------------- what a call hands back
\* kind: "action", "none" (None returned), "fault" (an exception left the
\* call) or "pending"; nodes: positions the search visited; noise: whether
\* the random source yielded anything but 0.0 during the call.
Returned(a, n) ==
    [kind |-> IF a = None THEN "none" ELSE "action", action |-> a,
     error |-> "", nodes |-> n, noise |-> FALSE]
Raised(e) ==
    [kind |-> "fault", action |-> None, error |-> e, nodes |-> 0, noise |-> FALSE]
Pending ==
    [kind |-> "pending", action |-> None, error |-> "", nodes |-> 0, noise |-> FALSE]

EmptyTree == [p \in {} |-> 0]

UCTIdle ==
    /\ tree = EmptyTree /\ done = 0 /\ leaf = Null /\ child = Null
    /\ result = 0 /\ terminal_hits = 0

\* ------------------------------------------- alpha-beta: the two agents
InitAB ==
    /\ state \in Positions
    /\ engine_sound = TRUE
    /\ player = state.to_move
    /\ max_depth \in 0..MaxDepth
    /\ rng \in 0..(RngMod - 1)
    /\ iteration = 0
    /\ agent = "none"
    /\ pc = "ready"
    /\ outcome = Pending
    /\ UCTIdle

\* AI.play -> AI.alpha_beta_search
AI_play ==
    /\ pc = "ready"
    /\ LET r == AI_alpha_beta_search(state)
       IN  /\ outcome' = [Returned(r.move, r.nodes) EXCEPT
                              !.noise = RandomNext(rng) # 0]
           /\ rng' = r.rng
    /\ agent' = "AI"
    /\ pc' = "done"
    /\ UNCHANGED <<state, engine_sound, player, max_depth, iteration>>
    /\ UNCHANGED uctVars

\* AlphaBetaAgent.play -> AlphaBetaAgent.alpha_beta_search
ABA_play ==
    /\ pc = "ready"
    /\ \E has \in BOOLEAN :
         LET r == ABA_alpha_beta_search(state, has)
         IN  outcome' = IF r.err # "" THEN Raised(r.err) ELSE Returned(r.move, 0)
    /\ agent' = "AlphaBetaAgent"
    /\ pc' = "done"
    /\ UNCHANGED <<state, engine_sound, player, max_depth, rng, iteration>>
    /\ UNCHANGED uctVars

NextAB == AI_play \/ ABA_play

SpecAB == InitAB /\ [][NextAB]_vars

\* ------------------------------------------------------------------ UCT
InitUCTOn(contract) ==
    /\ engine_sound = contract
    /\ state \in Positions
    /\ player = state.to_move
    /\ max_depth = 0
    /\ rng = 0
    /\ iteration \in 0..MaxIter
    /\ agent = "none"
    /\ pc = "ready"
    /\ outcome = Pending
    /\ UCTIdle

InitUCT == InitUCTOn(TRUE)

\* uct(): the root and its children.
uct_begin ==
    /\ pc = "ready"
    /\ tree' = make_children([p \in {Root} |-> Node(Null, state)], Root)
    /\ agent' = "UCT"
    /\ pc' = "loop"
    /\ UNCHANGED <<state, engine_sound, player, max_depth, rng, iteration, outcome>>
    /\ UNCHANGED <<done, leaf, child, result, terminal_hits>>

Fails(e, t) ==
    /\ pc' = "done"
    /\ outcome' = Raised(e)
    /\ tree' = t
    /\ UNCHANGED <<done, leaf, child, result, terminal_hits>>

\* One pass of the loop of uct(): select, expand, simulate, back_propagate.
uct_iterate ==
    /\ pc = "loop"
    /\ done < iteration
    /\ \E sel \in select(tree, Root) :
         IF sel.err # "" THEN Fails(sel.err, tree)
         ELSE \E ex \in expand(tree, sel.node) :
                IF ex.err # "" THEN Fails(ex.err, tree)
                ELSE \E sim \in simulate(ex.tree[ex.node].state) :
                       IF sim.err # "" THEN Fails(sim.err, ex.tree)
                       ELSE /\ tree' = back_propagate(ex.tree, sim.value, ex.node)
                            /\ leaf' = sel.node
                            /\ child' = ex.node
                            /\ result' = sim.value
                            /\ done' = done + 1
                            /\ terminal_hits' =
                                 IF is_terminal(tree[sel.node].state)
                                 THEN terminal_hits + 1 ELSE terminal_hits
                            /\ UNCHANGED <<pc, outcome>>
    /\ UNCHANGED <<state, engine_sound, player, max_depth, rng, iteration, agent>>

\* After the loop: the action of the most visited child of the root; max()
\* of no children raises ValueError.
uct_return ==
    /\ pc = "loop"
    /\ done = iteration
    /\ outcome' = IF tree[Root].children = <<>> THEN Raised("ValueError")
                  ELSE Returned(tree[Root].children[MostVisited(tree)].action, 0)
    /\ pc' = "done"
    /\ UNCHANGED <<state, engine_sound, player, max_depth, rng, iteration, agent>>
    /\ UNCHANGED uctVars

NextUCT == uct_begin \/ uct_iterate \/ uct_return

SpecUCT == InitUCT /\ [][NextUCT]_vars

\* The same search against an engine that lists no move for positions it
\* does not call terminal.
InitUCTBrokenEngine == InitUCTOn(FALSE)

SpecUCTBrokenEngine == InitUCTBrokenEngine /\ [][NextUCT]_vars

\* ======================================================================
\* Properties of the alpha-beta agents (checked under SpecAB)
\* ======================================================================

LegalActions == Range(actions(state))
CalledOnOpenPosition == ~is_terminal(state) /\ LegalActions # {}

\* Unpruned minimax to max_depth: same move order, same leaf evaluation
\* without noise, the incumbent replaced only by a strictly better value.
RECURSIVE MM_value(_, _, _), MM_loop(_, _, _, _, _, _, _)

MM_value(s, depth, maximise) ==
    IF AI_is_cutoff(s, depth)
    THEN [v |-> AI_eval(s) * (100 * RngMod), move |-> None, nodes |-> 1]
    ELSE MM_loop(s, 1, depth, maximise, IF maximise THEN -Inf ELSE Inf, None, 1)

MM_loop(s, i, depth, maximise, v, move, n) ==
    IF i > Len(actions(s)) THEN [v |-> v, move |-> move, nodes |-> n]
    ELSE LET r  == MM_value(game_result(s, actions(s)[i]), depth + 1, ~maximise)
             up == IF maximise THEN r.v > v ELSE r.v < v
         IN  MM_loop(s, i + 1, depth, maximise,
                     IF up THEN r.v ELSE v,
                     IF up THEN actions(s)[i] ELSE move, n + r.nodes)

Minimax == MM_value(state, 0, TRUE)

AIDone == pc = "done" /\ agent = "AI"
ABADone == pc = "done" /\ agent = "AlphaBetaAgent"

\* C1 (as claimed): on a non-terminal position with a legal action, each
\* searcher's top-level call returns one of the legal actions of that position
\* (the alpha-beta agents for max_depth >= 1, uct for every iteration count).
C1_ReturnsLegalAction ==
    (pc = "done" /\ CalledOnOpenPosition
        /\ (agent \in {"AI", "AlphaBetaAgent"} => max_depth >= 1))
    => (outcome.kind = "action" /\ outcome.action \in LegalActions)

\* C1, the part that holds of the code: AI and UCTAgent return a legal action.
C1_AI_UCT_ReturnLegalAction ==
    (agent \in {"AI", "UCT"}) => C1_ReturnsLegalAction

\* C2: without leaf noise, the pruned search of AI returns the action of the
\* unpruned minimax over the same depth, and visits no more positions.
C2_PruningKeepsAction ==
    (AIDone /\ ~outcome.noise)
    => (outcome.action = Minimax.move /\ outcome.nodes <= Minimax.nodes)

C2_Witness ==
    /\ AIDone /\ ~outcome.noise /\ max_depth = MaxDepth
    /\ outcome.kind = "action" /\ outcome.nodes < Minimax.nodes

\* The evaluation of a position for the agent's player: the weakest-board
\* stone count AI.eval computes.  AlphaBetaAgent.eval raises on every
\* position, so the same measure ranks the successors for both agents.
Evaluation(s) == C * MinPieces(s, player) - MinPieces(s, 1 - player)

UniqueBest(a) ==
    /\ a \in LegalActions
    /\ \A b \in LegalActions \ {a} :
         Evaluation(game_result(state, a)) > Evaluation(game_result(state, b))

\* C4 (as claimed): at max_depth = 1, when exactly one legal action leads to
\* a successor evaluated strictly higher than every other successor, each
\* alpha-beta agent returns that action, wherever it stands in the move order.
C4_PicksUniqueBest ==
    (pc = "done" /\ agent \in {"AI", "AlphaBetaAgent"}
        /\ max_depth = 1 /\ ~is_terminal(state))
    => \A a \in LegalActions :
         UniqueBest(a) => (outcome.kind = "action" /\ outcome.action = a)

\* C4, the part that holds of the code: AI picks the unique best successor.
C4_AI_PicksUniqueBest == (agent = "AI") => C4_PicksUniqueBest

C4_AI_Witness ==
    /\ AIDone /\ max_depth = 1 /\ outcome.noise
    /\ Len(actions(state)) >= 2
    /\ UniqueBest(actions(state)[Len(actions(state))])
    /\ outcome.action = actions(state)[Len(actions(state))]

UCTRunning == agent = "UCT" /\ pc \in {"loop", "done"}
UCTDone == agent = "UCT" /\ pc = "done"

RootChildren == tree[Root].children
VisitsOf(i) == tree[RootChildren[i].node].N

RECURSIVE SumVisits(_)
SumVisits(i) == IF i = 0 THEN 0 ELSE VisitsOf(i) + SumVisits(i - 1)

\* An exception raised by the interpreter or the library, not by a raise
\* statement of the searcher (the searchers hold none).
UnhandledFault ==
    /\ outcome.kind = "fault"
    /\ outcome.error \in {"ValueError", "IndexError", "UnboundLocalError",
                          "TypeError", "AttributeError"}

\* C3 (as claimed): uct on a terminal root ends without an unhandled fault,
\* for every iteration count: it returns no action or signals that none exists.
C3_TerminalRootHandled ==
    (UCTDone /\ is_terminal(state)) => ~UnhandledFault

\* C6 (as claimed): after the completed passes, the visit counts of the
\* root's children sum to the passes minus those handed a terminal leaf.
C6_VisitsLessTerminalHits ==
    (UCTRunning /\ ~is_terminal(state))
    => SumVisits(Len(RootChildren)) = done - terminal_hits

\* C6 (amended): on a non-terminal root, the visit counts of the root's
\* children sum to the number of completed passes, passes handed a terminal
\* leaf included.
C6_VisitsConserved ==
    (UCTRunning /\ ~is_terminal(state))
    => SumVisits(Len(RootChildren)) = done

C6_Witness ==
    /\ UCTRunning /\ ~is_terminal(state)
    /\ terminal_hits >= 1 /\ done > terminal_hits
    /\ SumVisits(Len(RootChildren)) = done

IsPrefix(a, b) == Len(a) <= Len(b) /\ SubSeq(b, 1, Len(a)) = a
ProperAncestors(n) == {SubSeq(n, 1, k) : k \in 0..(Len(n) - 1)}

\* C7: an unvisited child goes first.  While a node has a child never
\* simulated from, none of its children has been simulated from twice or
\* descended into; and each pass stops at the first node with such a child
\* (or at a terminal node) and expands one of the unvisited children.
C7_UnvisitedFirst ==
    UCTRunning =>
      /\ \A n \in DOMAIN tree :
           child_without_simulation(tree, n) =>
             \A c \in ChildNodes(tree, n) :
               /\ tree[c].N <= 1
               /\ \A g \in ChildNodes(tree, c) : tree[g].N = 0
      /\ done > 0 =>
           /\ \A a \in ProperAncestors(leaf) :
                /\ ~is_terminal(tree[a].state)
                /\ \A c \in ChildNodes(tree, a) : tree[c].N >= 1
           /\ IF is_terminal(tree[leaf].state) THEN child = leaf
              ELSE child \in ChildNodes(tree, leaf) /\ tree[child].N = 1

C7_Witness ==
    /\ UCTRunning /\ done >= 2 /\ child # leaf /\ Len(leaf) >= 1
    /\ tree[child].N = 1 /\ tree[child].U = 0
    /\ \E s \in ChildNodes(tree, leaf) \ {child} :
         tree[s].N = 1 /\ tree[s].U = 1

Before(n) == IF n \in DOMAIN tree THEN tree[n] ELSE Node(Null, state)

Share(n, c, r) == IF (Len(c) - Len(n)) % 2 = 0 THEN r ELSE 1 - r

\* C8: a pass adds 1 to visit_count of every node from the expanded node up
\* to the root, adds r = max(0, result) to the reward of the expanded node,
\* 1 - r to its parent's, r to its grandparent's and so on, and changes no
\* other node; a result of 1 from a child of the root adds 1 there and 0 at
\* the root.
C8_BackPropagation ==
    [][(pc = "loop" /\ pc' = "loop" /\ done' = done + 1) =>
         /\ \A n \in DOMAIN tree' :
              IF IsPrefix(n, child')
              THEN /\ tree'[n].N = Before(n).N + 1
                   /\ tree'[n].U = Before(n).U + Share(n, child', Max(0, result'))
                   /\ n # Root => tree'[n].parent = SubSeq(n, 1, Len(n) - 1)
              ELSE /\ tree'[n].N = Before(n).N
                   /\ tree'[n].U = Before(n).U
         /\ (result' = 1 /\ Len(child') = 1) =>
              /\ tree'[child'].U = Before(child').U + 1
              /\ tree'[Root].U = tree[Root].U
       ]_vars

C8_Witness ==
    /\ UCTRunning /\ done >= 1 /\ Len(child) >= 2 /\ result = -1
    /\ tree[child].U = 0 /\ tree[tree[child].parent].U >= 1

\* C9: uct returns the action of the root child with the largest visit
\* count, the first such child in the order of actions(state); with no pass
\* made, that is the first action listed.
C9_MostVisitedFirst ==
    (UCTDone /\ RootChildren # <<>>) =>
      /\ outcome.kind = "action"
      /\ \E i \in DOMAIN RootChildren :
           /\ RootChildren[i].action = outcome.action
           /\ RootChildren[i].action = actions(state)[i]
           /\ \A j \in DOMAIN RootChildren : VisitsOf(j) <= VisitsOf(i)
           /\ \A j \in 1..(i - 1) : VisitsOf(j) < VisitsOf(i)
      /\ iteration = 0 => outcome.action = actions(state)[1]

C9_Witness ==
    /\ UCTDone /\ outcome.kind = "action" /\ iteration >= 2
    /\ \E i, j \in DOMAIN RootChildren :
         /\ i < j /\ VisitsOf(i) = VisitsOf(j)
         /\ RootChildren[i].action = outcome.action

\* C10 (as claimed): when the engine lists no move for a position it does
\* not call terminal, the search raises a dedicated error; it does not end
\* in an out-of-range or unbound-variable fault, nor return an action of
\* its own making.
C10_EmptyMovesSurfaced ==
    (UCTDone /\ ~engine_sound /\ ~is_terminal(state)) =>
      /\ ~UnhandledFault
      /\ actions(state) = <<>> =>
           (outcome.kind = "fault" /\ outcome.error = "EmptyActionsError")

Generated(t, n) == n = Root \/ t[n].N >= 1

\* The children mapping of n holds one child per action of n's state, in the
\* order of actions(), each with n for parent and the successor for state.
OneChildPerAction(t, n) ==
    LET acts == actions(t[n].state)
        kids == t[n].children
    IN  /\ Len(kids) = Len(acts)
        /\ \A i \in DOMAIN kids :
             /\ kids[i].action = acts[i]
             /\ kids[i].node = Append(n, i)
             /\ kids[i].node \in DOMAIN t
             /\ t[kids[i].node].parent = n
             /\ t[kids[i].node].state = game_result(t[n].state, acts[i])

C11_Shape ==
    UCTRunning =>
      /\ Root \in DOMAIN tree
      /\ tree[Root].parent = Null /\ tree[Root].state = state
      /\ \A n \in DOMAIN tree :
           IF Generated(tree, n) THEN OneChildPerAction(tree, n)
           ELSE tree[n].children = <<>>

C11_Step ==
    LET old == DOMAIN tree
        new == DOMAIN tree' \ old
    IN  /\ \A n \in old :
             /\ n \in DOMAIN tree'
             /\ tree'[n].parent = tree[n].parent
             /\ tree'[n].state = tree[n].state
             /\ \/ tree'[n].children = tree[n].children
                \/ /\ n = child' /\ n # Root
                   /\ ~Generated(tree, n) /\ Generated(tree', n)
                   /\ tree[n].children = <<>>
        /\ \A c \in new \ {Root} :
             /\ tree'[c].N = 0 /\ tree'[c].U = 0 /\ tree'[c].children = <<>>
             /\ c \in ChildNodes(tree', tree'[c].parent)
             /\ IF old = {} THEN tree'[c].parent = Root
                ELSE tree'[c].parent = child' /\ child' \in old \ {Root}
        /\ Root \in new <=> (pc = "ready" /\ pc' = "loop")
        /\ (pc = "loop" /\ done' = done + 1 /\ ~is_terminal(tree[leaf'].state)) =>
             /\ child' \in ChildNodes(tree, leaf')
             /\ ~Generated(tree, child') /\ tree[child'].children = <<>>
             /\ Generated(tree', child')

\* C11: during one uct call the children of a node are generated once, the
\* root's when the call begins and another node's by the expand that chooses
\* it while it is unvisited, and are never changed afterwards; they hold one
\* child per legal action of the node's state, created with visit_count 0
\* and the node for parent; the root is created once.
C11_ChildrenGeneratedOnce ==
    []C11_Shape /\ [][C11_Step]_vars

C11_Witness ==
    /\ UCTRunning /\ done >= 3
    /\ \E n \in DOMAIN tree \ {Root} :
         /\ tree[n].N >= 2 /\ tree[n].children # <<>>
         /\ \E c \in ChildNodes(tree, n) : tree[c].N >= 1
         /\ \E c \in ChildNodes(tree, n) : tree[c].N = 0

\* C12: every node of the tree has 0 <= U <= N, and U = 0 when N = 0,
\* whatever utility (-1, 0 or 1) the simulations ended with.
C12_RewardWithinVisits ==
    UCTRunning =>
      \A n \in DOMAIN tree :
        /\ tree[n].N \in Nat /\ tree[n].U \in Nat
        /\ tree[n].U <= tree[n].N
        /\ tree[n].N = 0 => tree[n].U = 0

C12_Witness ==
    /\ UCTRunning /\ done >= 2 /\ result = -1 /\ child # Root
    /\ tree[child].U < tree[child].N
    /\ \E n \in DOMAIN tree : 0 < tree[n].U /\ tree[n].U < tree[n].N
    /\ \E n \in DOMAIN tree \ {Root} : tree[n].N = 0

====
